---- MODULE Spec2Model ----
(***************************************************************************)
(* Model of AgriculturalDataManager (src/src/data_manager.py): the four    *)
(* in-memory tables, the CSV files they are read from and written to, and  *)
(* one action per public method.  Tables are pandas DataFrames: an ordered *)
(* list of column names and an ordered list of rows.                       *)
(***************************************************************************)
EXTENDS Integers, Sequences, FiniteSets, TLC

VARIABLES
    files,            \* the four source CSV files under data/: a table, or None when the file is absent
    writable,         \* whether data/features_daily.csv can be written
    features_daily,   \* the persisted feature table data/features_daily.csv (None: no such file)
    monitoring_data,  \* self.monitoring_data
    weather_data,     \* self.weather_data
    soil_data,        \* self.soil_data
    yield_history,    \* self.yield_history
    scalar,           \* self.scalar: the statistics of the last StandardScaler fit
    call,             \* the method called by the last step, with its argument
    result,           \* what that call returned
    raised,           \* TRUE when an exception escaped that call
    pc,               \* position of the __main__ script ("api": methods are called freely)
    script            \* the script's variables: features, trend, risk_metric, yield_analysis

vars == <<files, writable, features_daily, monitoring_data, weather_data,
          soil_data, yield_history, scalar, call, result, raised, pc, script>>

-----------------------------------------------------------------------------
(* Cell values.  Every cell is a tuple: <<>> is a missing value (NaN, NaT, *)
(* None), <<n, d>> the number n/d in lowest terms with d > 0, <<s>> a      *)
(* string, <<t>> a timestamp counted in hours from 2024-01-01 00:00 and    *)
(* <<y>> a year for the annee column.                                      *)

Null == <<>>

IsNull(v) == Len(v) = 0

Abs(n) == IF n < 0 THEN -n ELSE n

Sign(n) == IF n < 0 THEN -1 ELSE IF n > 0 THEN 1 ELSE 0

RECURSIVE Gcd(_, _)
Gcd(a, b) == IF b = 0 THEN a ELSE Gcd(b, a % b)

\* The number n/d (d > 0) in lowest terms.
Num(n, d) == LET g == Gcd(Abs(n), d) IN <<n \div g, d \div g>>

Whole(n) == <<n, 1>>

Str(s) == <<s>>

Ts(t) == <<t>>

HoursPerDay == 24

DayOf(t) == t \div HoursPerDay

\* The Gregorian rule for the years 1901 to 2099.
DaysInYear(y) == IF y % 4 = 0 THEN 366 ELSE 365

RECURSIVE YearOfDay(_, _, _)
YearOfDay(d, y, start) ==
    IF d < start THEN YearOfDay(d, y - 1, start - DaysInYear(y - 1))
    ELSE IF d >= start + DaysInYear(y) THEN YearOfDay(d, y + 1, start + DaysInYear(y))
    ELSE y

\* Series.dt.year of the timestamp t.
YearOf(t) == YearOfDay(DayOf(t), 2024, 0)

RECURSIVE YearStartDay(_)
YearStartDay(y) ==
    IF y = 2024 THEN 0
    ELSE IF y > 2024 THEN YearStartDay(y - 1) + DaysInYear(y - 1)
    ELSE YearStartDay(y + 1) - DaysInYear(y)

\* The timestamp a year number is parsed to: January 1st, 00:00, of the year.
ParseYear(v) == IF IsNull(v) THEN Null ELSE Ts(YearStartDay(v[1]) * HoursPerDay)

-----------------------------------------------------------------------------
(* DataFrames.                                                             *)

None == [isNone |-> TRUE, cols |-> <<>>, rows |-> <<>>]

Table(cols, rows) == [isNone |-> FALSE, cols |-> cols, rows |-> rows]

Range(s) == {s[i] : i \in DOMAIN s}

HasCol(t, c) == c \in Range(t.cols)

\* s with every element replaced by F of it.
MapRows(s, F(_)) == [i \in DOMAIN s |-> F(s[i])] \o <<>>

RECURSIVE Concat(_)
Concat(ss) == IF ss = <<>> THEN <<>> ELSE Head(ss) \o Concat(Tail(ss))

\* Stable insertion of row r into a sequence sorted by column c.
RECURSIVE InsertSorted(_, _, _)
InsertSorted(s, r, c) ==
    IF s = <<>> THEN <<r>>
    ELSE IF r[c][1] < Head(s)[c][1] THEN <<r>> \o s
    ELSE <<Head(s)>> \o InsertSorted(Tail(s), r, c)

RECURSIVE SortRows(_, _)
SortRows(s, c) ==
    IF s = <<>> THEN <<>>
    ELSE InsertSorted(SortRows(SubSeq(s, 1, Len(s) - 1), c), s[Len(s)], c)

\* s without its i-th element.
RemoveAt(s, i) == [j \in 1..(Len(s) - 1) |-> IF j < i THEN s[j] ELSE s[j + 1]]

\* The orders of the rows s that ascend in column c: one when no two rows
\* share a key, every arrangement of the rows that do otherwise.
RECURSIVE SortOrders(_, _)
SortOrders(s, c) ==
    IF s = <<>> THEN {<<>>}
    ELSE LET firsts == {i \in DOMAIN s : \A j \in DOMAIN s : s[i][c][1] <= s[j][c][1]}
         IN  UNION {{<<s[i]>> \o rest : rest \in SortOrders(RemoveAt(s, i), c)} :
                       i \in firsts}

\* DataFrame.sort_values(by=c): a new frame, rows in ascending order of c.
\* kind defaults to 'quicksort', which is not stable: the order in which rows
\* of equal key come out is the sort's own, not the order they came in, so
\* the result is any one of the ascending orders.
SortValues(t, c) == {Table(t.cols, rows) : rows \in SortOrders(t.rows, c)}

-----------------------------------------------------------------------------
(* Arithmetic on cells.                                                    *)

FAdd(a, b) == Num(a[1] * b[2] + b[1] * a[2], a[2] * b[2])

RECURSIVE FSum(_)
FSum(vs) == IF vs = <<>> THEN Whole(0) ELSE FAdd(Head(vs), FSum(Tail(vs)))

\* Series.abs(): a missing value stays missing.
AbsCell(v) == IF IsNull(v) THEN Null ELSE <<Abs(v[1]), v[2]>>

\* The sum in place of the mean.
Mean_Sum(vs) ==
    LET present == SelectSeq(vs, LAMBDA v : ~IsNull(v))
    IN  IF present = <<>> THEN Null ELSE FSum(present)

\* Series.mean(): the arithmetic mean of the values that are not missing,
\* missing when there is none.
Mean(vs) ==
    LET present == SelectSeq(vs, LAMBDA v : ~IsNull(v))
        total   == FSum(present)
    IN  IF present = <<>> THEN Null
        ELSE Num(total[1], total[2] * Len(present))

-----------------------------------------------------------------------------
(* The source files.                                                       *)

FileNames == <<"monitoring_cultures", "meteo_detaillee", "sols", "historique_rendements">>

\* pd.read_csv(path, parse_dates=...): the file's table; the call raises
\* FileNotFoundError when the file is absent.
ReadCsvRaises(f) == files[f].isNone

\* The date columns hold timestamps as written; the annee column of the yield
\* file holds year numbers, which parse_dates=["annee"] turns into timestamps.
ReadCsv(f) ==
    IF f = "historique_rendements"
    THEN Table(files[f].cols,
               MapRows(files[f].rows, LAMBDA r : [r EXCEPT !["annee"] = ParseYear(r["annee"])]))
    ELSE files[f]

\* The tables after the first k reads of load_data have succeeded.
LoadedUpTo(k) ==
    [monitoring |-> IF k >= 1 THEN ReadCsv(FileNames[1]) ELSE monitoring_data,
     weather    |-> IF k >= 2 THEN ReadCsv(FileNames[2]) ELSE weather_data,
     soil       |-> IF k >= 3 THEN ReadCsv(FileNames[3]) ELSE soil_data,
     yield      |-> IF k >= 4 THEN ReadCsv(FileNames[4]) ELSE yield_history]

\* The number of reads of load_data that succeed before one raises: the four
\* reads share one try block, so the first failure skips the ones after it.
ReadsDone ==
    LET failing == {i \in 1..4 : ReadCsvRaises(FileNames[i])}
    IN  IF failing = {} THEN 4
        ELSE (CHOOSE i \in failing : \A j \in failing : i <= j) - 1

\* What a call returned: None, a table (data), the (history, trend) pair of
\* get_temporal_patterns or the dictionary of analyze_yield_patterns, of which
\* the model keeps whether each part is there and the series the regression
\* was fitted on.
ReturnsNone ==
    [isNone |-> TRUE, data |-> None, history |-> FALSE, trend |-> FALSE,
     series |-> <<>>, noise |-> FALSE]

ReturnsTable(t) ==
    [isNone |-> t.isNone, data |-> t, history |-> FALSE, trend |-> FALSE,
     series |-> <<>>, noise |-> FALSE]

ReturnsAnalysis(history, series) ==
    [isNone |-> FALSE, data |-> None, history |-> history, trend |-> TRUE,
     series |-> series, noise |-> FALSE]

\* The call a step makes: the method and its arguments.
Called(op, parcelle, data) == [op |-> op, parcelle_id |-> parcelle, data |-> data]

\* load_data(): reads the four files in order inside one try block; both
\* except clauses only print.
load_data ==
    /\ LET t == LoadedUpTo(ReadsDone)
       IN  /\ monitoring_data' = t.monitoring
           /\ weather_data' = t.weather
           /\ soil_data' = t.soil
           /\ yield_history' = t.yield
    /\ call' = Called("load_data", "", None)
    /\ result' = ReturnsNone
    /\ raised' = FALSE
    /\ UNCHANGED <<files, writable, features_daily, scalar>>

-----------------------------------------------------------------------------
(* Temporal normalizer.                                                    *)

TargetYear == 2024

\* weather_data[weather_data['date'].dt.year == 2024]
YearFilter(t) ==
    Table(t.cols, SelectSeq(t.rows, LAMBDA r : YearOf(r["date"][1]) = TargetYear))

\* weather_data['rayonnement_solaire'] = weather_data['rayonnement_solaire'].abs()
SignCorrection(t) ==
    Table(t.cols,
          MapRows(t.rows, LAMBDA r :
              [r EXCEPT !["rayonnement_solaire"] = AbsCell(r["rayonnement_solaire"])]))

\* clean_data(): no try block, so subscripting an unset weather table raises
\* TypeError out of the call.
clean_data ==
    /\ IF weather_data.isNone
       THEN /\ raised' = TRUE
            /\ UNCHANGED weather_data
       ELSE /\ raised' = FALSE
            /\ weather_data' = SignCorrection(YearFilter(weather_data))
    /\ call' = Called("clean_data", "", None)
    /\ result' = ReturnsNone
    /\ UNCHANGED <<files, writable, features_daily, monitoring_data, soil_data,
                   yield_history, scalar>>

Min(S) == CHOOSE x \in S : \A y \in S : x <= y

Max(S) == CHOOSE x \in S : \A y \in S : x >= y

\* s without its elements equal to x.
Without(s, x) == SelectSeq(s, LAMBDA y : y # x)

\* The daily row of day d: the mean of every other column over the rows of
\* that day.
DailyRow(t, d) ==
    LET same == SelectSeq(t.rows, LAMBDA r : DayOf(r["date"][1]) = d)
    IN  [c \in Range(t.cols) |->
            IF c = "date" THEN Ts(d * HoursPerDay)
            ELSE Mean(MapRows(same, LAMBDA r : r[c]))]

\* A resampling that leaves out the days without a source row.
ResampleDaily_SkipEmpty(t) ==
    LET days == {DayOf(t.rows[i]["date"][1]) : i \in DOMAIN t.rows}
        cols == <<"date">> \o Without(t.cols, "date")
        all  == [i \in 1..(Max(days) - Min(days) + 1) |-> Min(days) + i - 1]
    IN  IF days = {} THEN Table(cols, <<>>)
        ELSE Table(cols, MapRows(SelectSeq(all, LAMBDA d : d \in days),
                                 LAMBDA d : DailyRow(t, d)))

\* set_index('date').resample('D').mean().reset_index(): one bin per calendar
\* day from the first to the last day of the index, the date column first.
ResampleDaily(t) ==
    LET days == {DayOf(t.rows[i]["date"][1]) : i \in DOMAIN t.rows}
        cols == <<"date">> \o Without(t.cols, "date")
    IN  IF days = {} THEN Table(cols, <<>>)
        ELSE Table(cols, [i \in 1..(Max(days) - Min(days) + 1) |->
                              DailyRow(t, Min(days) + i - 1)] \o <<>>)

\* meteo_data_hourly_to_daily(): the whole body is in a try block whose
\* except clause prints, so an unset weather table is left unset.
meteo_data_hourly_to_daily ==
    /\ weather_data' = IF weather_data.isNone THEN weather_data
                       ELSE ResampleDaily(weather_data)
    /\ call' = Called("meteo_data_hourly_to_daily", "", None)
    /\ result' = ReturnsNone
    /\ raised' = FALSE
    /\ UNCHANGED <<files, writable, features_daily, monitoring_data, soil_data,
                   yield_history, scalar>>

-----------------------------------------------------------------------------
(* Feature joiner.                                                         *)

\* r1 and r2 as one row: the columns of r2 override those of r1.
MergeRow(r1, r2) == r2 @@ r1

\* The row of missing values over the columns cs.
NullRow(cs) == [c \in cs |-> Null]

\* r with its columns renamed by the function ren (old name |-> new name).
RenameRow(r, ren) ==
    [c \in {ren[o] : o \in DOMAIN r} |-> r[CHOOSE o \in DOMAIN r : ren[o] = c]]

\* The renaming pandas applies to one side of a merge: a column both sides
\* have, other than the key, gets the side's suffix.
Suffixed(cols, others, key, suffix) ==
    [c \in Range(cols) |->
        IF c # key /\ c \in Range(others) THEN c \o suffix ELSE c]

\* The columns of a merge on key: the left columns, then the right columns
\* without the key, the shared ones suffixed _x and _y.
MergedCols(lcols, rcols, key) ==
    MapRows(lcols, LAMBDA c : Suffixed(lcols, rcols, key, "_x")[c])
    \o MapRows(Without(rcols, key), LAMBDA c : Suffixed(rcols, lcols, key, "_y")[c])

\* The merged row of left row l and right row r (r = <<>>: no match).
MergedRow(l, r, left, right, key) ==
    LET lren == Suffixed(left.cols, right.cols, key, "_x")
        rren == Suffixed(right.cols, left.cols, key, "_y")
        rcs  == Range(right.cols) \ {key}
        rrow == IF r = <<>> THEN NullRow(rcs) ELSE [c \in rcs |-> r[1][c]]
    IN  MergeRow(RenameRow(l, lren), RenameRow(rrow, [c \in rcs |-> rren[c]]))

\* The match under direction='backward': the last row at or before t, and the
\* first row after t only when there is none.
NearestIndex_Backward(rows, t) ==
    LET back == {j \in DOMAIN rows : rows[j]["date"][1] <= t}
        fwd  == {j \in DOMAIN rows : rows[j]["date"][1] >= t}
    IN  IF back = {} /\ fwd = {} THEN 0
        ELSE IF back = {} THEN Min(fwd)
        ELSE Max(back)

\* The index in the sorted rows of the match of timestamp t under
\* direction='nearest' (0: the right table is empty): the last row at or
\* before t, or the first row at or after t when that one is strictly nearer.
NearestIndex(rows, t) ==
    LET back == {j \in DOMAIN rows : rows[j]["date"][1] <= t}
        fwd  == {j \in DOMAIN rows : rows[j]["date"][1] >= t}
    IN  IF back = {} /\ fwd = {} THEN 0
        ELSE IF fwd = {} THEN Max(back)
        ELSE IF back = {} THEN Min(fwd)
        ELSE IF t - rows[Max(back)]["date"][1] <= rows[Min(fwd)]["date"][1] - t
             THEN Max(back)
             ELSE Min(fwd)

\* pd.merge_asof(left, right, on="date", direction='nearest') of two frames
\* sorted by date: one row per left row, in the left order.
MergeAsof(left, right) ==
    Table(MergedCols(left.cols, right.cols, "date"),
          MapRows(left.rows, LAMBDA l :
              LET j == NearestIndex(right.rows, l["date"][1])
              IN  MergedRow(l, IF j = 0 THEN <<>> ELSE <<right.rows[j]>>,
                            left, right, "date")))

\* pd.merge(left, right, how='left', on=key): every left row, in order, with
\* each right row of the same key in the right order, or with missing values
\* when there is none.
MergeLeft(left, right, key) ==
    Table(MergedCols(left.cols, right.cols, key),
          Concat(MapRows(left.rows, LAMBDA l :
              LET ms == SelectSeq(right.rows, LAMBDA r : r[key] = l[key])
              IN  IF ms = <<>> THEN <<MergedRow(l, <<>>, left, right, key)>>
                  ELSE MapRows(ms, LAMBDA r : MergedRow(l, <<r>>, left, right, key)))))

\* frame[cs]: the columns cs only.
Project(t, cs) ==
    Table(cs, MapRows(t.rows, LAMBDA r : [c \in Range(cs) |-> r[c]]))

\* self.yield_history[self.yield_history['annee'].dt.year == 2024]
Rendement2024(t) ==
    Table(t.cols, SelectSeq(t.rows, LAMBDA r : YearOf(r["annee"][1]) = TargetYear))

\* The enrichment without the filter on the year: the yield rows of every year.
EnrichWithYieldHistory_AllYears(data) ==
    IF yield_history.isNone THEN data
    ELSE MergeLeft(data,
                   Project(yield_history, <<"parcelle_id", "annee", "rendement">>),
                   "parcelle_id")

\* _enrich_with_yield_history(data): the merge of data with the yield rows of
\* 2024; with the yield history unset the subscript raises TypeError, which
\* the except clause answers by returning data as it got it.
EnrichWithYieldHistory(data) ==
    IF yield_history.isNone THEN data
    ELSE MergeLeft(data,
                   Project(Rendement2024(yield_history),
                           <<"parcelle_id", "annee", "rendement">>),
                   "parcelle_id")

\* data.drop(columns=cs, errors='ignore')
DropColumns(t, cs) ==
    LET keep == SelectSeq(t.cols, LAMBDA c : c \notin cs)
    IN  Table(keep, MapRows(t.rows, LAMBDA r : [c \in Range(keep) |-> r[c]]))

\* data.rename(columns={old: new}) for each old |-> new of ren that data has.
RenameColumns(t, ren) ==
    LET full == [c \in Range(t.cols) |-> IF c \in DOMAIN ren THEN ren[c] ELSE c]
    IN  Table(MapRows(t.cols, LAMBDA c : full[c]),
              MapRows(t.rows, LAMBDA r : RenameRow(r, full)))

\* Lines 81-82 of prepare_features: the soil coordinates go, the monitoring
\* coordinates get their plain names back.
Deduplicate(t) ==
    RenameColumns(DropColumns(t, {"latitude_y", "longitude_y"}),
                  [c \in {"latitude_x", "longitude_x"} |->
                      IF c = "latitude_x" THEN "latitude" ELSE "longitude"])

-----------------------------------------------------------------------------
(* Risk scorer.                                                            *)

RequiredColumns == <<"parcelle_id", "culture", "rendement", "ph", "matiere_organique">>

ScaledColumns == <<"rendement", "ph", "matiere_organique">>

\* data.dropna(subset=cs): the rows with a value in every column of cs.
DropNa(t, cs) ==
    Table(t.cols, SelectSeq(t.rows, LAMBDA r : \A i \in DOMAIN cs : ~IsNull(r[cs[i]])))

\* The largest r with r * r <= v.
RECURSIVE Isqrt(_)
Isqrt(v) ==
    IF v < 2 THEN v
    ELSE LET r == 2 * Isqrt(v \div 4)
         IN  IF (r + 1) * (r + 1) <= v THEN r + 1 ELSE r

\* The least common multiple of the positive integers ns.
RECURSIVE Lcm(_)
Lcm(ns) ==
    IF ns = <<>> THEN 1
    ELSE LET l == Lcm(Tail(ns)) IN (Head(ns) * l) \div Gcd(Head(ns), l)

RECURSIVE Sum(_)
Sum(ns) == IF ns = <<>> THEN 0 ELSE Head(ns) + Sum(Tail(ns))

\* StandardScaler.fit_transform of one column, in thousandths, rounded toward
\* zero: (x - mean) / std with the
\* population standard deviation, a zero deviation being replaced by 1.  The
\* values are brought to a common denominator first, which leaves the z-score
\* as it is: z = (n*X - S) / sqrt(n*Q - S*S) for the integers X, their sum S
\* and their sum of squares Q.
ZScores(vs) ==
    LET n  == Len(vs)
        L  == Lcm(MapRows(vs, LAMBDA v : v[2]))
        X  == MapRows(vs, LAMBDA v : v[1] * (L \div v[2]))
        S  == Sum(X)
        Q  == Sum(MapRows(X, LAMBDA x : x * x))
        D  == n * Q - S * S
        sd == Isqrt(D * 1000000)
    IN  MapRows(X, LAMBDA x :
            IF D = 0 THEN 0
            ELSE Sign(n * x - S) * ((Abs(n * x - S) * 1000000) \div sd))

WeightRendement == 5

WeightPh == 3

WeightMatiereOrganique == 2

\* 0.5 * z(rendement) + 0.3 * z(ph) + 0.2 * z(matiere_organique), row by row:
\* the weights are tenths and the z-scores thousandths.
RiskIndex(t) ==
    LET zr == ZScores(MapRows(t.rows, LAMBDA r : r["rendement"]))
        zp == ZScores(MapRows(t.rows, LAMBDA r : r["ph"]))
        zm == ZScores(MapRows(t.rows, LAMBDA r : r["matiere_organique"]))
    IN  [i \in DOMAIN t.rows |->
            Num(WeightRendement * zr[i] + WeightPh * zp[i]
                    + WeightMatiereOrganique * zm[i],
                10000)] \o <<>>

\* The bins as pd.cut(..., right=False) would make them: each holds its left edge.
RiskCategory_LeftClosed(x) ==
    IF x[1] < -x[2] THEN Str("Très Bas")
    ELSE IF x[1] < 0 THEN Str("Bas")
    ELSE IF x[1] < x[2] THEN Str("Modéré")
    ELSE Str("Élevé")

\* pd.cut(x, bins=[-inf, -1, 0, 1, inf], labels=[...]): right defaults to True,
\* so each bin holds its right edge: (-inf, -1], (-1, 0], (0, 1], (1, inf).
RiskCategory(x) ==
    IF x[1] <= -x[2] THEN Str("Très Bas")
    ELSE IF x[1] <= 0 THEN Str("Bas")
    ELSE IF x[1] <= x[2] THEN Str("Modéré")
    ELSE Str("Élevé")

\* data[c] = values: the column is replaced where it is, or added last.
SetColumn(t, c, values) ==
    Table(IF HasCol(t, c) THEN t.cols ELSE Append(t.cols, c),
          [i \in DOMAIN t.rows |-> MergeRow(t.rows[i], [k \in {c} |-> values[i]])] \o <<>>)

Unfitted == [fitted |-> FALSE, n_samples_seen |-> 0, mean |-> <<>>]

\* The scaler after fit_transform of the scaled columns of t (at least one row).
Fitted(t) ==
    [fitted |-> TRUE,
     n_samples_seen |-> Len(t.rows),
     mean |-> MapRows(ScaledColumns, LAMBDA c : Mean(MapRows(t.rows, LAMBDA r : r[c])))]

\* The scorer returning its argument, rows included, when the scaling fails.
CalculateRiskMetrics_ReturnsInput(data) ==
    IF data.isNone \/ \E k \in DOMAIN RequiredColumns : ~HasCol(data, RequiredColumns[k])
    THEN [ret |-> data, scalar |-> scalar, ok |-> FALSE]
    ELSE LET kept == DropNa(data, RequiredColumns)
         IN  IF kept.rows = <<>>
             THEN [ret |-> data, scalar |-> Unfitted, ok |-> FALSE]
             ELSE LET index  == RiskIndex(kept)
                      scored == SetColumn(kept, "risk_index", index)
                  IN  [ret |-> SetColumn(scored, "risk_category",
                                         MapRows(index, LAMBDA x : RiskCategory(x))),
                       scalar |-> Fitted(kept),
                       ok |-> TRUE]

\* The scorer with the incomplete rows dropped before the check of the columns.
CalculateRiskMetrics_DropFirst(data) ==
    IF data.isNone
    THEN [ret |-> data, scalar |-> scalar, ok |-> FALSE]
    ELSE LET present == SelectSeq(RequiredColumns, LAMBDA c : HasCol(data, c))
             kept    == DropNa(data, present)
         IN  IF present # RequiredColumns
             THEN [ret |-> kept, scalar |-> scalar, ok |-> FALSE]
             ELSE IF kept.rows = <<>>
             THEN [ret |-> kept, scalar |-> Unfitted, ok |-> FALSE]
             ELSE LET index  == RiskIndex(kept)
                      scored == SetColumn(kept, "risk_index", index)
                  IN  [ret |-> SetColumn(scored, "risk_category",
                                         MapRows(index, LAMBDA x : RiskCategory(x))),
                       scalar |-> Fitted(kept),
                       ok |-> TRUE]

\* calculate_risk_metrics(data): what it returns and the scaler it leaves.
\* Every failure is answered by 'return data' in the except clause, and data
\* is by then whatever the name was last bound to: the argument until line
\* 178, the frame without the incomplete rows after it.  fit resets the
\* scaler before it validates its input, and rejects a frame with no rows.
CalculateRiskMetrics(data) ==
    IF data.isNone
    THEN [ret |-> data, scalar |-> scalar, ok |-> FALSE]
    ELSE IF \E i \in DOMAIN RequiredColumns : ~HasCol(data, RequiredColumns[i])
    THEN [ret |-> data, scalar |-> scalar, ok |-> FALSE]
    ELSE LET kept == DropNa(data, RequiredColumns)
         IN  IF kept.rows = <<>>
             THEN [ret |-> kept, scalar |-> Unfitted, ok |-> FALSE]
             ELSE LET index  == RiskIndex(kept)
                      scored == SetColumn(kept, "risk_index", index)
                  IN  [ret |-> SetColumn(scored, "risk_category",
                                         MapRows(index, LAMBDA x : RiskCategory(x))),
                       scalar |-> Fitted(kept),
                       ok |-> TRUE]

calculate_risk_metrics(data) ==
    /\ LET r == CalculateRiskMetrics(data)
       IN  /\ result' = ReturnsTable(r.ret)
           /\ scalar' = r.scalar
    /\ call' = Called("calculate_risk_metrics", "", data)
    /\ raised' = FALSE
    /\ UNCHANGED <<files, writable, features_daily, monitoring_data, weather_data,
                   soil_data, yield_history>>

\* A write whose failure is swallowed instead of raised.
ToCsv_Silent(t) == [raises |-> FALSE, file |-> IF writable THEN t ELSE features_daily]

\* data.to_csv("data/features_daily.csv", index=False): the file holds the
\* table, or the call raises and the file stays as it was.
ToCsv(t) ==
    IF writable THEN [raises |-> FALSE, file |-> t]
    ELSE [raises |-> TRUE, file |-> features_daily]

\* prepare_features(): every statement is in one try block whose except
\* clause prints and falls off the end of the method, so the call returns
\* None from the first statement that raises, keeping what ran before it:
\* the sorted copies (lines 66-67) and the refitted scaler (line 84).
prepare_features ==
    /\ call' = Called("prepare_features", "", None)
    /\ raised' = FALSE
    /\ UNCHANGED <<files, writable, soil_data, yield_history>>
    /\ IF monitoring_data.isNone
       THEN /\ result' = ReturnsNone
            /\ UNCHANGED <<monitoring_data, weather_data, scalar, features_daily>>
       ELSE \E monitoring \in SortValues(monitoring_data, "date") :
            /\ monitoring_data' = monitoring
            /\ IF weather_data.isNone
               THEN /\ result' = ReturnsNone
                    /\ UNCHANGED <<weather_data, scalar, features_daily>>
               ELSE \E weather \in SortValues(weather_data, "date") :
                    /\ weather_data' = weather
                    /\ IF soil_data.isNone
                       THEN /\ result' = ReturnsNone
                            /\ UNCHANGED <<scalar, features_daily>>
                       ELSE LET asof   == MergeAsof(monitoring, weather)
                                soil   == MergeLeft(asof, soil_data, "parcelle_id")
                                merged == Deduplicate(EnrichWithYieldHistory(soil))
                                r      == CalculateRiskMetrics(merged)
                                saved  == ToCsv(r.ret)
                            IN  /\ scalar' = r.scalar
                                /\ features_daily' = saved.file
                                /\ result' = IF saved.raises THEN ReturnsNone
                                              ELSE ReturnsTable(r.ret)

-----------------------------------------------------------------------------
(* Temporal analyzer.                                                      *)

MinObservations == 12

Period == 12

\* seasonal_decompose(x, model="additive", period=12) raises ValueError unless
\* x holds two complete cycles.
DecomposeRaises(series) == Len(series) < 2 * Period

\* LinearRegression().fit(X, y) raises ValueError when X and y differ in
\* length or y holds a missing value.
FitRaises(X, y) == Len(X) # Len(y) \/ \E i \in DOMAIN y : IsNull(y[i])

\* The analysis with neither the check of the number of observations nor the
\* one of the decomposition.
TemporalPatterns_NoMinimum(parcelle_id) ==
    IF features_daily.isNone THEN ReturnsNone
    ELSE LET rows == SelectSeq(features_daily.rows,
                               LAMBDA r : r["parcelle_id"] = Str(parcelle_id))
             ndvi_series == SelectSeq(MapRows(SortRows(rows, "date"), LAMBDA r : r["ndvi"]),
                                      LAMBDA v : ~IsNull(v))
         IN  IF rows = <<>> \/ Len(ndvi_series) # Len(rows) THEN ReturnsNone
             ELSE ReturnsAnalysis(TRUE, ndvi_series)

\* get_temporal_patterns(parcelle_id): reads the persisted feature table and
\* returns (history, trend), or (None, None) from the except clause.  The
\* regression pairs the dates of all the parcel's rows (line 134) with the
\* ndvi values that are not missing (line 135).
TemporalPatterns(parcelle_id) ==
    IF features_daily.isNone THEN ReturnsNone
    ELSE LET rows == SelectSeq(features_daily.rows,
                               LAMBDA r : r["parcelle_id"] = Str(parcelle_id))
             sorted == SortRows(rows, "date")
             ndvi_series == SelectSeq(MapRows(sorted, LAMBDA r : r["ndvi"]),
                                      LAMBDA v : ~IsNull(v))
             date_ordinal == MapRows(sorted, LAMBDA r : DayOf(r["date"][1]))
         IN  IF ~HasCol(features_daily, "ndvi") THEN ReturnsNone
             ELSE IF rows = <<>> THEN ReturnsNone
             ELSE IF Len(ndvi_series) < MinObservations THEN ReturnsNone
             ELSE IF DecomposeRaises(ndvi_series) THEN ReturnsNone
             ELSE IF FitRaises(date_ordinal, ndvi_series) THEN ReturnsNone
             ELSE ReturnsAnalysis(TRUE, ndvi_series)

get_temporal_patterns(parcelle_id) ==
    /\ result' = TemporalPatterns(parcelle_id)
    /\ call' = Called("get_temporal_patterns", parcelle_id, None)
    /\ raised' = FALSE
    /\ UNCHANGED <<files, writable, features_daily, monitoring_data, weather_data,
                   soil_data, yield_history, scalar>>

FSub(a, b) == Num(a[1] * b[2] - b[1] * a[2], a[2] * b[2])

\* a * n / d for integers n and d > 0.
FScale(a, n, d) == Num(a[1] * n, a[2] * d)

\* Series.interpolate(): linear in the position, forward only: a missing
\* value between two values lies on the line through them, one after the last
\* value repeats it, one before the first value stays missing.
Interpolate(vs) ==
    [i \in DOMAIN vs |->
        IF ~IsNull(vs[i]) THEN vs[i]
        ELSE LET before == {j \in DOMAIN vs : j < i /\ ~IsNull(vs[j])}
                 after  == {j \in DOMAIN vs : j > i /\ ~IsNull(vs[j])}
             IN  IF before = {} THEN Null
                 ELSE IF after = {} THEN vs[Max(before)]
                 ELSE LET p == Max(before)
                          q == Min(after)
                      IN  FAdd(vs[p], FScale(FSub(vs[q], vs[p]), i - p, q - p))]

\* Series.nunique(): the number of distinct values, missing ones not counted.
NUnique(vs) == Cardinality({vs[i] : i \in {j \in DOMAIN vs : ~IsNull(vs[j])}})

\* The analysis answering a constant series with the except clause.
YieldPatterns_ConstantRaises(parcelle_id) ==
    IF yield_history.isNone THEN ReturnsNone
    ELSE LET rows == SelectSeq(yield_history.rows,
                               LAMBDA r : r["parcelle_id"] = Str(parcelle_id))
             yield_series == MapRows(SortRows(rows, "annee"), LAMBDA r : r["rendement"])
             filled == IF \E i \in DOMAIN yield_series : IsNull(yield_series[i])
                       THEN Interpolate(yield_series)
                       ELSE yield_series
         IN  IF rows = <<>> \/ NUnique(filled) = 1 THEN ReturnsNone
             ELSE IF \E i \in DOMAIN filled : IsNull(filled[i]) THEN ReturnsNone
             ELSE ReturnsAnalysis(FALSE, filled)

\* analyze_yield_patterns(parcelle_id): works on a copy of the parcel's yield
\* rows; returns the results dictionary, or None from the except clause.  The
\* noise added to a constant series is random, so the model keeps the series
\* as it is before the noise and the fact that noise is added.
YieldPatterns(parcelle_id) ==
    IF yield_history.isNone THEN ReturnsNone
    ELSE LET rows == SelectSeq(yield_history.rows,
                               LAMBDA r : r["parcelle_id"] = Str(parcelle_id))
             yield_series == MapRows(SortRows(rows, "annee"), LAMBDA r : r["rendement"])
             filled == IF \E i \in DOMAIN yield_series : IsNull(yield_series[i])
                       THEN Interpolate(yield_series)
                       ELSE yield_series
             date_ordinal == MapRows(SortRows(rows, "annee"),
                                     LAMBDA r : DayOf(r["annee"][1]))
         IN  IF rows = <<>> THEN ReturnsNone
             ELSE IF FitRaises(date_ordinal, filled) THEN ReturnsNone
             ELSE [ReturnsAnalysis(FALSE, filled) EXCEPT !.noise = NUnique(filled) = 1]

\* The analysis interpolating the stored yield history itself.
analyze_yield_patterns_InPlace(parcelle_id) ==
    /\ result' = YieldPatterns(parcelle_id)
    /\ call' = Called("analyze_yield_patterns", parcelle_id, None)
    /\ raised' = FALSE
    /\ yield_history' =
          IF yield_history.isNone THEN yield_history
          ELSE LET filled == Interpolate(MapRows(yield_history.rows,
                                                 LAMBDA r : r["rendement"]))
               IN  Table(yield_history.cols,
                         [i \in DOMAIN yield_history.rows |->
                             [yield_history.rows[i] EXCEPT !["rendement"] = filled[i]]])
    /\ UNCHANGED <<files, writable, features_daily, monitoring_data, weather_data,
                   soil_data, scalar>>

analyze_yield_patterns(parcelle_id) ==
    /\ result' = YieldPatterns(parcelle_id)
    /\ call' = Called("analyze_yield_patterns", parcelle_id, None)
    /\ raised' = FALSE
    /\ UNCHANGED <<files, writable, features_daily, monitoring_data, weather_data,
                   soil_data, yield_history, scalar>>

-----------------------------------------------------------------------------
(* The __main__ script of data_manager.py.                                 *)

NoLocals == [features |-> None, has_trend |-> FALSE, risk_metric |-> None,
             has_yield_analysis |-> FALSE]

ScriptParcel == "P001"

\* data_manager.load_data()
main_load ==
    /\ pc = "start"
    /\ load_data
    /\ pc' = "loaded"
    /\ UNCHANGED script

\* features = data_manager.prepare_features()
main_prepare ==
    /\ pc = "loaded"
    /\ prepare_features
    /\ script' = [script EXCEPT !.features = result'.data]
    /\ pc' = "prepared"

\* history, trend = data_manager.get_temporal_patterns(parcelle_id)
main_patterns ==
    /\ pc = "prepared"
    /\ get_temporal_patterns(ScriptParcel)
    /\ script' = [script EXCEPT !.has_trend = result'.trend]
    /\ pc' = "patterns"

\* risk_metric = data_manager.calculate_risk_metrics(features)
main_risk ==
    /\ pc = "patterns"
    /\ calculate_risk_metrics(script.features)
    /\ script' = [script EXCEPT !.risk_metric = result'.data]
    /\ pc' = "scored"

\* yield_analysis = data_manager.analyze_yield_patterns(parcelle_id)
main_yield ==
    /\ pc = "scored"
    /\ analyze_yield_patterns(ScriptParcel)
    /\ script' = [script EXCEPT !.has_yield_analysis = ~result'.isNone]
    /\ pc' = "analyzed"

\* A statement of the script that only prints: it raises when what it
\* subscripts or calls is None, and the script ends there.
Prints(from, to, fails) ==
    /\ pc = from
    /\ pc' = IF fails THEN "crashed" ELSE to
    /\ raised' = fails
    /\ call' = Called("print", "", None)
    /\ result' = ReturnsNone
    /\ UNCHANGED <<files, writable, features_daily, monitoring_data, weather_data,
                   soil_data, yield_history, scalar, script>>

\* print(risk_metric.head())
main_print_risk == Prints("analyzed", "printed_risk", script.risk_metric.isNone)

\* print(f"... {trend['pente']:.4f} ...")
main_print_ndvi == Prints("printed_risk", "printed_ndvi", ~script.has_trend)

\* if yield_analysis: print(...)
main_print_yield == Prints("printed_ndvi", "done", FALSE)

-----------------------------------------------------------------------------
(* The data the files may hold.                                            *)

Parcels == {"P001", "P002"}

Culture(p) == IF p = "P001" THEN "Ble" ELSE "Mais"

MonitoringColumns == <<"parcelle_id", "date", "culture", "ndvi", "latitude", "longitude">>

MonitoringRecord(p, t, ndvi) ==
    [parcelle_id |-> Str(p), date |-> Ts(t), culture |-> Str(Culture(p)),
     ndvi |-> ndvi, latitude |-> Whole(45), longitude |-> Whole(5)]

WeatherColumns == <<"date", "rayonnement_solaire">>

WeatherRecord(t, radiation) == [date |-> Ts(t), rayonnement_solaire |-> Whole(radiation)]

SoilColumns == <<"parcelle_id", "ph", "matiere_organique", "latitude", "longitude">>

SoilRecord(p, ph, mo) ==
    [parcelle_id |-> Str(p), ph |-> ph, matiere_organique |-> mo,
     latitude |-> Whole(46), longitude |-> Whole(6)]

YieldColumns == <<"parcelle_id", "annee", "rendement">>

YieldRecord(p, y, rendement) ==
    [parcelle_id |-> Str(p), annee |-> Whole(y), rendement |-> rendement]

\* All the sequences of at most n elements of S.
SeqsUpTo(S, n) == UNION {[1..k -> S] : k \in 0..n}

MaxMonitoringRows == 2

\* Midnight of January 2nd and of January 3rd 2024.
MonitoringTimes == {24, 48}

MonitoringFiles ==
    {Table(MonitoringColumns, rows) :
        rows \in SeqsUpTo({MonitoringRecord(p, t, Num(6, 10)) :
                              p \in Parcels, t \in MonitoringTimes},
                          MaxMonitoringRows)}

\* Readings of 2023-12-31 12:00, 2024-01-01 00:00 (negative), 2024-01-04 00:00
\* and 2024-01-04 12:00.
NominalWeather ==
    Table(WeatherColumns,
          <<WeatherRecord(-12, 4), WeatherRecord(0, -3),
            WeatherRecord(72, 5), WeatherRecord(84, 2)>>)

\* Only P001 has a soil record.
NominalSoil == Table(SoilColumns, <<SoilRecord("P001", Num(13, 2), Whole(2))>>)

\* P001 has a yield for 2023 and 2024, P002 for 2023 only.
NominalYield ==
    Table(YieldColumns,
          <<YieldRecord("P001", 2023, Whole(4)), YieldRecord("P001", 2024, Whole(5)),
            YieldRecord("P002", 2023, Whole(4))>>)

FileSystems(monitoring, weather, soil, yield) ==
    {[monitoring_cultures |-> m, meteo_detaillee |-> w, sols |-> s,
      historique_rendements |-> y] :
        m \in monitoring \cup {None}, w \in weather \cup {None},
        s \in soil \cup {None}, y \in yield \cup {None}}

\* The manager as __init__ leaves it, beside the files f, and the script at
\* position at with the variables locals.
Constructed(f, w, at, locals) ==
    /\ files = f
    /\ writable = w
    /\ features_daily = None
    /\ monitoring_data = None
    /\ weather_data = None
    /\ soil_data = None
    /\ yield_history = None
    /\ scalar = Unfitted
    /\ call = Called("__init__", "", None)
    /\ result = ReturnsNone
    /\ raised = FALSE
    /\ pc = at
    /\ script = locals

-----------------------------------------------------------------------------
(* The manager under any sequence of calls.                                *)

Init ==
    \E f \in FileSystems(MonitoringFiles, {NominalWeather}, {NominalSoil}, {NominalYield}),
       w \in BOOLEAN :
        Constructed(f, w, "api", NoLocals)

Next ==
    \/ load_data /\ UNCHANGED <<pc, script>>
    \/ clean_data /\ UNCHANGED <<pc, script>>
    \/ meteo_data_hourly_to_daily /\ UNCHANGED <<pc, script>>
    \/ prepare_features /\ UNCHANGED <<pc, script>>
    \/ calculate_risk_metrics(result.data) /\ UNCHANGED <<pc, script>>
    \/ \E p \in Parcels : get_temporal_patterns(p) /\ UNCHANGED <<pc, script>>
    \/ \E p \in Parcels : analyze_yield_patterns(p) /\ UNCHANGED <<pc, script>>

Spec == Init /\ [][Next]_vars

-----------------------------------------------------------------------------
(* The __main__ script, from its first statement to its last.              *)

\* Two daily observations of P001 and one of P002.
ShortMonitoring ==
    Table(MonitoringColumns,
          <<MonitoringRecord("P001", 24, Num(6, 10)), MonitoringRecord("P002", 24, Num(5, 10)),
            MonitoringRecord("P001", 48, Num(7, 10))>>)

\* Two periods of daily observations of P001, from January 1st 2024.
LongMonitoring ==
    Table(MonitoringColumns,
          [k \in 1..(2 * Period) |->
              MonitoringRecord("P001", (k - 1) * HoursPerDay, Num(5 + (k % 3), 10))])

InitMain ==
    \E f \in FileSystems({ShortMonitoring, LongMonitoring}, {NominalWeather},
                         {NominalSoil}, {NominalYield}),
       w \in BOOLEAN :
        Constructed(f, w, "start", NoLocals)

NextMain ==
    \/ main_load
    \/ main_prepare
    \/ main_patterns
    \/ main_risk
    \/ main_yield
    \/ main_print_risk
    \/ main_print_ndvi
    \/ main_print_yield

SpecMain == InitMain /\ [][NextMain]_vars

-----------------------------------------------------------------------------
(* The temporal normalizer on any weather file.                            *)

MaxWeatherRows == 3

\* 2023-12-31 12:00, then 00:00 and 12:00 of January 1st and 00:00 of
\* January 3rd 2024.
WeatherTimes == {-12, 0, 12, 48}

Radiations == {-3, 4}

WeatherFiles ==
    {Table(WeatherColumns, rows) :
        rows \in SeqsUpTo({WeatherRecord(t, x) : t \in WeatherTimes, x \in Radiations},
                          MaxWeatherRows)}

InitNormalizer ==
    \E w \in WeatherFiles :
        Constructed([monitoring_cultures |-> ShortMonitoring, meteo_detaillee |-> w,
                     sols |-> NominalSoil, historique_rendements |-> NominalYield],
                    TRUE, "api", NoLocals)

NextNormalizer ==
    \/ load_data /\ UNCHANGED <<pc, script>>
    \/ clean_data /\ UNCHANGED <<pc, script>>
    \/ meteo_data_hourly_to_daily /\ UNCHANGED <<pc, script>>

SpecNormalizer == InitNormalizer /\ [][NextNormalizer]_vars

-----------------------------------------------------------------------------
(* The risk scorer on any table the script may pass it.                    *)

MaxRiskRows == 3

RiskRecord(rendement, ph, mo) ==
    [parcelle_id |-> Str("P001"), culture |-> Str("Ble"), rendement |-> rendement,
     ph |-> ph, matiere_organique |-> mo]

RiskRecords ==
    {RiskRecord(r, Whole(ph), Whole(mo)) :
        r \in {Null, Whole(4), Whole(5)}, ph \in {6, 7}, mo \in {2, 3}}

\* The tables of at most MaxRiskRows rows, with all the required columns or
\* with one of them missing.
RiskInputs ==
    {DropColumns(Table(RequiredColumns, rows), absent) :
        rows \in SeqsUpTo(RiskRecords, MaxRiskRows),
        absent \in {{}} \cup {{c} : c \in Range(RequiredColumns)}}

\* The script about to pass its features to calculate_risk_metrics (line 276).
InitRisk ==
    \E data \in RiskInputs :
        Constructed([monitoring_cultures |-> None, meteo_detaillee |-> None,
                     sols |-> None, historique_rendements |-> None],
                    TRUE, "patterns", [NoLocals EXCEPT !.features = data])

SpecRisk == InitRisk /\ [][main_risk]_vars

-----------------------------------------------------------------------------
(* The feature joiner called again and again on one manager.               *)

NdviReadings == {Num(5, 10), Num(6, 10)}

\* Monitoring files in which a parcel may have several readings of one date.
RepeatedMonitoring ==
    {Table(MonitoringColumns, rows) :
        rows \in SeqsUpTo({MonitoringRecord(p, t, v) :
                              p \in Parcels, t \in MonitoringTimes, v \in NdviReadings},
                          MaxMonitoringRows)}

InitJoiner ==
    \E m \in RepeatedMonitoring :
        Constructed([monitoring_cultures |-> m, meteo_detaillee |-> NominalWeather,
                     sols |-> NominalSoil, historique_rendements |-> NominalYield],
                    TRUE, "api", NoLocals)

NextJoiner ==
    \/ load_data /\ UNCHANGED <<pc, script>>
    \/ prepare_features /\ UNCHANGED <<pc, script>>

SpecJoiner == InitJoiner /\ [][NextJoiner]_vars

-----------------------------------------------------------------------------
(* The temporal analyzer on feature tables of any length.                  *)

MaxObservations == 26

\* The rows whose ndvi may be missing: the first and one in the middle.
MissingPositions == {1, 13}

\* Daily observations of P001 from January 1st 2024, none of P002.
ObservationFiles ==
    {Table(MonitoringColumns,
           [k \in 1..n |->
               MonitoringRecord("P001", (k - 1) * HoursPerDay,
                                IF k \in missing THEN Null ELSE Num(5 + (k % 3), 10))]) :
        n \in 0..MaxObservations, missing \in SUBSET MissingPositions}

InitPatterns ==
    \E m \in ObservationFiles :
        Constructed([monitoring_cultures |-> m, meteo_detaillee |-> NominalWeather,
                     sols |-> NominalSoil, historique_rendements |-> NominalYield],
                    TRUE, "api", NoLocals)

NextPatterns ==
    \/ load_data /\ UNCHANGED <<pc, script>>
    \/ prepare_features /\ UNCHANGED <<pc, script>>
    \/ \E p \in Parcels : get_temporal_patterns(p) /\ UNCHANGED <<pc, script>>

SpecPatterns == InitPatterns /\ [][NextPatterns]_vars

-----------------------------------------------------------------------------
(* The two analyzers on any yield history of one parcel.                   *)

MaxYieldRows == 3

YieldYears == {2022, 2023, 2024}

\* Yield files of P001, none of P002: at most one row per year, in any order,
\* the yield of a year known or missing.
YieldFiles ==
    {Table(YieldColumns, rows) :
        rows \in {r \in SeqsUpTo({YieldRecord("P001", y, v) :
                                     y \in YieldYears, v \in {Null, Whole(4), Whole(5)}},
                                 MaxYieldRows) :
                     \A i, j \in DOMAIN r : r[i]["annee"] = r[j]["annee"] => i = j}}

InitYield ==
    \E y \in YieldFiles :
        Constructed([monitoring_cultures |-> ShortMonitoring,
                     meteo_detaillee |-> NominalWeather,
                     sols |-> NominalSoil, historique_rendements |-> y],
                    TRUE, "api", NoLocals)

NextYield ==
    \/ load_data /\ UNCHANGED <<pc, script>>
    \/ prepare_features /\ UNCHANGED <<pc, script>>
    \/ \E p \in Parcels : get_temporal_patterns(p) /\ UNCHANGED <<pc, script>>
    \/ \E p \in Parcels : analyze_yield_patterns(p) /\ UNCHANGED <<pc, script>>

SpecYield == InitYield /\ [][NextYield]_vars

-----------------------------------------------------------------------------
(* Properties.                                                             *)

\* The number x as a cell of a risk_index column compared with the integer k.
Below(x, k) == x[1] < k * x[2]

AtMost(x, k) == x[1] <= k * x[2]

\* The last call scored its argument: it returned a table with the risk columns.
Scored ==
    /\ call.op = "calculate_risk_metrics"
    /\ ~result.isNone
    /\ HasCol(result.data, "risk_index")
    /\ HasCol(result.data, "risk_category")

\* C1 as claimed: the bins of risk_category hold their left edge: below -1 is
\* 'Très Bas', from -1 to below 0 'Bas', from 0 to below 1 'Modéré', 1 and
\* above 'Élevé'.
C1_LeftClosedBins ==
    Scored =>
        \A i \in DOMAIN result.data.rows :
            LET x == result.data.rows[i]["risk_index"]
                c == result.data.rows[i]["risk_category"]
            IN  /\ Below(x, -1) => c = Str("Très Bas")
                /\ (~Below(x, -1) /\ Below(x, 0)) => c = Str("Bas")
                /\ (~Below(x, 0) /\ Below(x, 1)) => c = Str("Modéré")
                /\ ~Below(x, 1) => c = Str("Élevé")

\* C1 as amended: the bins of risk_category hold their right edge: up to -1
\* is 'Très Bas', above -1 up to 0 'Bas', above 0 up to 1 'Modéré', above 1
\* 'Élevé'; so exactly -1 is 'Très Bas', exactly 0 'Bas', exactly 1 'Modéré'.
C1_RightClosedBins ==
    Scored =>
        \A i \in DOMAIN result.data.rows :
            LET x == result.data.rows[i]["risk_index"]
                c == result.data.rows[i]["risk_category"]
            IN  /\ AtMost(x, -1) => c = Str("Très Bas")
                /\ (~AtMost(x, -1) /\ AtMost(x, 0)) => c = Str("Bas")
                /\ (~AtMost(x, 0) /\ AtMost(x, 1)) => c = Str("Modéré")
                /\ ~AtMost(x, 1) => c = Str("Élevé")

\* C1 witness: a scored table with a row of risk_index exactly -1 in 'Très Bas'
\* and a row of risk_index exactly 1 in 'Modéré'.
C1_Witness ==
    /\ Scored
    /\ \E i, j \in DOMAIN result.data.rows :
        /\ result.data.rows[i]["risk_index"] = Whole(-1)
        /\ result.data.rows[i]["risk_category"] = Str("Très Bas")
        /\ result.data.rows[j]["risk_index"] = Whole(1)
        /\ result.data.rows[j]["risk_category"] = Str("Modéré")

\* Every row of t has a value in every required column, and t has them all.
Complete(t) ==
    \A k \in DOMAIN RequiredColumns :
        /\ HasCol(t, RequiredColumns[k])
        /\ \A i \in DOMAIN t.rows : ~IsNull(t.rows[i][RequiredColumns[k]])

HasRequiredColumns(t) == \A k \in DOMAIN RequiredColumns : HasCol(t, RequiredColumns[k])

\* C2 as claimed: a call of prepare_features in which the yield enrichment
\* failed (the yield history is unset) or the risk scoring failed (no
\* risk_index column was added) returns None.
C2_AnyFailureAborts ==
    (call.op = "prepare_features" /\ ~result.isNone) =>
        /\ ~yield_history.isNone
        /\ HasCol(result.data, "risk_index")

\* C2 as amended: prepare_features returns None exactly when the sort, the
\* as-of merge, the soil join (a monitoring, weather or soil table is unset) or
\* the write of the file fails; a failure of the yield enrichment or of the
\* risk scoring is caught inside that step, and the call goes on to persist
\* and return the table as the step left it.
C2_OnlyJoinFailuresAbort ==
    call.op = "prepare_features" =>
        /\ result.isNone <=>
              (monitoring_data.isNone \/ weather_data.isNone \/ soil_data.isNone
               \/ ~writable)
        /\ ~result.isNone => features_daily = result.data

\* C2 witness: prepare_features has returned and persisted a table with rows
\* although the yield history is unset and no risk_index was computed.
C2_Witness ==
    /\ call.op = "prepare_features"
    /\ yield_history.isNone
    /\ ~result.isNone
    /\ result.data.rows # <<>>
    /\ ~HasCol(result.data, "risk_index")
    /\ features_daily = result.data

\* C3 as claimed: no exception escapes a call of the manager.
C3_NoErrorEscapes == ~raised

\* C4 as claimed: after load_data with exactly one source file missing, the
\* table of that file is the only one unset.
C4_OnlyMissingTableUnset ==
    LET missing == {i \in 1..4 : files[FileNames[i]].isNone}
        tables  == <<monitoring_data, weather_data, soil_data, yield_history>>
    IN  (call.op = "load_data" /\ Cardinality(missing) = 1) =>
            /\ ~raised
            /\ \A i \in 1..4 : tables[i].isNone <=> i \in missing

\* C5 as claimed: every row of the table prepare_features returns and writes
\* has a value in each required column.
C5_EveryRowComplete ==
    (call.op = "prepare_features" /\ ~result.isNone) =>
        /\ Complete(result.data)
        /\ Complete(features_daily)

\* C5 as amended: when the merged table has the five required columns, every
\* row of the table prepare_features returns and writes has a value in each
\* of them (with a required column absent the rows are returned as merged).
C5_CompleteWhenColumnsPresent ==
    (call.op = "prepare_features" /\ ~result.isNone /\ HasRequiredColumns(result.data)) =>
        /\ Complete(result.data)
        /\ features_daily = result.data

\* C5 witness: prepare_features has returned a table with the required
\* columns that kept some monitoring rows and excluded others.
C5_Witness ==
    /\ call.op = "prepare_features"
    /\ ~result.isNone
    /\ HasRequiredColumns(result.data)
    /\ result.data.rows # <<>>
    /\ Len(result.data.rows) < Len(monitoring_data.rows)

\* C6 as claimed: when the argument has the required columns and no row with
\* a value in each of them, so that the standardization fails,
\* calculate_risk_metrics returns its argument: the same rows and columns.
C6_FailureReturnsInput ==
    (/\ call.op = "calculate_risk_metrics"
     /\ ~call.data.isNone
     /\ HasRequiredColumns(call.data)
     /\ \A i \in DOMAIN call.data.rows :
            \E k \in DOMAIN RequiredColumns : IsNull(call.data.rows[i][RequiredColumns[k]]))
        => result.data = call.data

\* A required column is absent from the argument of the last call.
ColumnAbsent ==
    /\ call.op = "calculate_risk_metrics"
    /\ ~call.data.isNone
    /\ ~HasRequiredColumns(call.data)

\* C7: when a required column is absent from its argument,
\* calculate_risk_metrics returns the argument, rows and columns unchanged,
\* and does not raise.
C7_MissingColumnReturnsInput ==
    ColumnAbsent => (~raised /\ ~result.isNone /\ result.data = call.data)

\* C7 witness: the argument lacks a required column and has a row with a
\* missing value in another required column, and came back as it was.
C7_Witness ==
    /\ ColumnAbsent
    /\ HasCol(call.data, "rendement")
    /\ \E i \in DOMAIN call.data.rows : IsNull(call.data.rows[i]["rendement"])
    /\ result.data = call.data

\* The weather table t is as the normalizer leaves it: one row per day, every
\* date in the target year, no negative radiation.
Normalized(t) ==
    /\ \A i \in DOMAIN t.rows :
        /\ YearOf(t.rows[i]["date"][1]) = TargetYear
        /\ t.rows[i]["date"][1] % HoursPerDay = 0
        /\ IsNull(t.rows[i]["rayonnement_solaire"])
              \/ t.rows[i]["rayonnement_solaire"][1] >= 0
    /\ \A i, j \in DOMAIN t.rows : t.rows[i]["date"] = t.rows[j]["date"] => i = j

\* C8 as claimed: when the script's prepare_features has joined the tables,
\* the weather table it consumed is normalized and every joined row carries a
\* radiation that is not negative.
C8_JoinConsumesNormalizedWeather ==
    (call.op = "prepare_features" /\ ~result.isNone) =>
        /\ Normalized(weather_data)
        /\ \A i \in DOMAIN result.data.rows :
              IsNull(result.data.rows[i]["rayonnement_solaire"])
                 \/ result.data.rows[i]["rayonnement_solaire"][1] >= 0

\* The rows of t that fall on day d.
OnDay(t, d) == SelectSeq(t.rows, LAMBDA r : DayOf(r["date"][1]) = d)

DaysOf(t) == {DayOf(t.rows[i]["date"][1]) : i \in DOMAIN t.rows}

\* v is the arithmetic mean of the values of vs that are not missing (missing
\* when there is none): v times their number is their sum.
IsMeanOf(v, vs) ==
    LET present == SelectSeq(vs, LAMBDA x : ~IsNull(x))
    IN  IF present = <<>> THEN IsNull(v)
        ELSE ~IsNull(v) /\ FScale(v, Len(present), 1) = FSum(present)

\* out has exactly one row for each day of src, holding the mean radiation of
\* the rows of src of that day.
DailyMeans(src, out) ==
    \A d \in DaysOf(src) :
        /\ Cardinality({i \in DOMAIN out.rows : out.rows[i]["date"] = Ts(d * HoursPerDay)}) = 1
        /\ \A i \in DOMAIN out.rows :
              out.rows[i]["date"] = Ts(d * HoursPerDay) =>
                  IsMeanOf(out.rows[i]["rayonnement_solaire"],
                           MapRows(OnDay(src, d), LAMBDA r : r["rayonnement_solaire"]))

\* C9: when meteo_data_hourly_to_daily follows clean_data, the weather table
\* has exactly one row per day that has rows in the cleaned table, holding
\* their mean, every date is in 2024 and no radiation is negative.
C9_DailyMeansOfCleanedRows ==
    [][(call.op = "clean_data" /\ ~raised /\ call'.op = "meteo_data_hourly_to_daily") =>
          /\ DailyMeans(weather_data, weather_data')
          /\ Normalized(weather_data')]_vars

\* C9 witness: the table after the resampling holds 7/2, the mean of 4 and of
\* the sign-corrected -3 of one day, and no row of 2023 although the file has one.
C9_Witness ==
    /\ call.op = "meteo_data_hourly_to_daily"
    /\ Normalized(weather_data)
    /\ \E i \in DOMAIN weather_data.rows :
          weather_data.rows[i]["rayonnement_solaire"] = Num(7, 2)
    /\ \E i \in DOMAIN files["meteo_detaillee"].rows :
          YearOf(files["meteo_detaillee"].rows[i]["date"][1]) # TargetYear

\* C10 as claimed: the resampled table has a row for a day only if a source
\* row falls on that day.
C10_EmptyDaysAbsent ==
    [][(call'.op = "meteo_data_hourly_to_daily" /\ ~weather_data.isNone) =>
          DaysOf(weather_data') \subseteq DaysOf(weather_data)]_vars

\* C10 as amended: the resampled table has one row for every day from the
\* first to the last source day, in order; the row of a day on which no source
\* row falls holds a missing radiation (nothing is filled forward), and no day
\* before the first or after the last source day has a row.
C10_EmptyDaysMissing ==
    [][(call'.op = "meteo_data_hourly_to_daily" /\ weather_data.rows # <<>>) =>
          LET first == Min(DaysOf(weather_data))
              last  == Max(DaysOf(weather_data))
          IN  /\ Len(weather_data'.rows) = last - first + 1
              /\ \A i \in DOMAIN weather_data'.rows :
                    /\ weather_data'.rows[i]["date"] = Ts((first + i - 1) * HoursPerDay)
                    /\ (first + i - 1) \notin DaysOf(weather_data) =>
                          IsNull(weather_data'.rows[i]["rayonnement_solaire"])]_vars

\* C10 witness: after the resampling, a row with a missing radiation lies
\* between two rows with a radiation, in a table loaded from a file without
\* missing values.
C10_Witness ==
    /\ call.op = "meteo_data_hourly_to_daily"
    /\ \E i, j, k \in DOMAIN weather_data.rows :
        /\ i < j /\ j < k
        /\ ~IsNull(weather_data.rows[i]["rayonnement_solaire"])
        /\ IsNull(weather_data.rows[j]["rayonnement_solaire"])
        /\ ~IsNull(weather_data.rows[k]["rayonnement_solaire"])

\* prepare_features has returned the table it joined.
Joined == call.op = "prepare_features" /\ ~result.isNone

\* The weather rows of w at the least distance in time from timestamp t.
Nearest(w, t) ==
    {j \in DOMAIN w.rows :
        \A k \in DOMAIN w.rows :
            Abs(w.rows[j]["date"][1] - t) <= Abs(w.rows[k]["date"][1] - t)}

\* C11: every row of the table prepare_features joined carries the radiation
\* of a weather row at the least distance in time from the row's monitoring
\* date, earlier or later: no weather row is strictly closer.
C11_NearestWeatherAttached ==
    Joined =>
        \A i \in DOMAIN result.data.rows :
            \E j \in Nearest(weather_data, result.data.rows[i]["date"][1]) :
                result.data.rows[i]["rayonnement_solaire"]
                    = weather_data.rows[j]["rayonnement_solaire"]

\* C11 witness: the joined table has a row matched with an earlier weather
\* row and a row matched with a later one, each the only nearest row.
C11_Witness ==
    /\ Joined
    /\ \E i, k \in DOMAIN result.data.rows :
        LET ni == Nearest(weather_data, result.data.rows[i]["date"][1])
            nk == Nearest(weather_data, result.data.rows[k]["date"][1])
        IN  /\ \E j \in ni :
                /\ ni = {j}
                /\ weather_data.rows[j]["date"][1] < result.data.rows[i]["date"][1]
                /\ result.data.rows[i]["rayonnement_solaire"]
                      = weather_data.rows[j]["rayonnement_solaire"]
            /\ \E j \in nk :
                /\ nk = {j}
                /\ weather_data.rows[j]["date"][1] > result.data.rows[k]["date"][1]
                /\ result.data.rows[k]["rayonnement_solaire"]
                      = weather_data.rows[j]["rayonnement_solaire"]

\* C12 as claimed: a call of prepare_features that directly follows another
\* on the same manager returns and persists the table the first one did, rows
\* in the same order.
C12_SecondCallSameTable ==
    [][(call.op = "prepare_features" /\ call'.op = "prepare_features") =>
          (result' = result /\ features_daily' = features_daily)]_vars

\* The ndvi values that are not missing in the rows of parcel p of the
\* persisted feature table, by date.
Observations(p) ==
    IF features_daily.isNone THEN <<>>
    ELSE SelectSeq(MapRows(SortRows(SelectSeq(features_daily.rows,
                                              LAMBDA r : r["parcelle_id"] = Str(p)),
                                    "date"),
                           LAMBDA r : r["ndvi"]),
                   LAMBDA v : ~IsNull(v))

\* The last call was get_temporal_patterns and returned (None, None).
EmptyPair == result.isNone /\ ~result.history /\ ~result.trend

\* C13: get_temporal_patterns for a parcel with fewer than 12 ndvi values in
\* the persisted feature table, one with no row included, returns
\* (None, None) and does not raise.
C13_FewObservationsEmptyPair ==
    (call.op = "get_temporal_patterns"
     /\ Len(Observations(call.parcelle_id)) < MinObservations)
        => (EmptyPair /\ ~raised)

\* C13 witness: the call for a parcel with 11 ndvi values and a row without
\* one returned (None, None).
C13_Witness ==
    /\ call.op = "get_temporal_patterns"
    /\ ~features_daily.isNone
    /\ Len(Observations(call.parcelle_id)) = MinObservations - 1
    /\ \E i \in DOMAIN features_daily.rows : IsNull(features_daily.rows[i]["ndvi"])
    /\ EmptyPair
    /\ ~raised

\* C18 as claimed: get_temporal_patterns for a parcel with at least 12 ndvi
\* values in the persisted feature table returns a (history, trend) pair, the
\* trend fitted on exactly those values.
C18_EnoughObservationsPair ==
    (call.op = "get_temporal_patterns"
     /\ Len(Observations(call.parcelle_id)) >= MinObservations)
        => /\ ~result.isNone
           /\ result.history
           /\ result.trend
           /\ result.series = Observations(call.parcelle_id)

\* The rendement values stored for parcel p, in the order of the rows.
Rendements(p) ==
    IF yield_history.isNone THEN <<>>
    ELSE MapRows(SelectSeq(yield_history.rows, LAMBDA r : r["parcelle_id"] = Str(p)),
                 LAMBDA r : r["rendement"])

\* C14: a call of get_temporal_patterns or of analyze_yield_patterns, with any
\* parcel and whatever it returns, leaves the persisted feature table and the
\* manager's four tables as they were.
C14_AnalysesReadOnly ==
    [][call'.op \in {"get_temporal_patterns", "analyze_yield_patterns"} =>
          UNCHANGED <<features_daily, monitoring_data, weather_data, soil_data,
                      yield_history>>]_vars

\* C14 witness: analyze_yield_patterns has returned an analysis of a series
\* it interpolated, and the stored yield history still has the missing value.
C14_Witness ==
    /\ call.op = "analyze_yield_patterns"
    /\ ~result.isNone
    /\ \E i \in DOMAIN Rendements(call.parcelle_id) :
          IsNull(Rendements(call.parcelle_id)[i])
    /\ \A i \in DOMAIN result.series : ~IsNull(result.series[i])

\* The yield history of parcel p is constant: it has rows, and every year has
\* the same rendement.
ConstantYield(p) ==
    /\ Rendements(p) # <<>>
    /\ \A i \in DOMAIN Rendements(p) :
          ~IsNull(Rendements(p)[i]) /\ Rendements(p)[i] = Rendements(p)[1]

\* C15: analyze_yield_patterns for a parcel whose yield history is constant,
\* a single year included, does not raise and returns a result with its trend:
\* the series gets noise before the regression.
C15_ConstantSeriesAnalysed ==
    (call.op = "analyze_yield_patterns" /\ ConstantYield(call.parcelle_id)) =>
        /\ ~raised
        /\ ~result.isNone
        /\ result.trend
        /\ result.noise

\* C15 witness: an analysis was returned for a parcel with the same yield in
\* each of several years.
C15_Witness ==
    /\ call.op = "analyze_yield_patterns"
    /\ ConstantYield(call.parcelle_id)
    /\ Len(Rendements(call.parcelle_id)) > 1
    /\ ~result.isNone
    /\ result.noise

\* C17 as claimed: analyze_yield_patterns for a parcel whose yield series has
\* missing values, at any position, returns a result, and the regression got a
\* series without missing value.
C17_EveryGapFilled ==
    (/\ call.op = "analyze_yield_patterns"
     /\ \E i \in DOMAIN Rendements(call.parcelle_id) :
            IsNull(Rendements(call.parcelle_id)[i]))
        => /\ ~result.isNone
           /\ \A i \in DOMAIN result.series : ~IsNull(result.series[i])

\* The table prepare_features passed to the yield enrichment in the last call,
\* and the one the enrichment gave back: after the call the manager holds the
\* sorted tables they were built from.
EnrichmentInput ==
    MergeLeft(MergeAsof(monitoring_data, weather_data), soil_data, "parcelle_id")

Enriched == EnrichWithYieldHistory(EnrichmentInput)

\* The enrichment ran in the last call and did not fail.
EnrichmentRan ==
    /\ call.op = "prepare_features"
    /\ ~monitoring_data.isNone /\ ~weather_data.isNone /\ ~soil_data.isNone
    /\ ~yield_history.isNone

\* The rendement values the yield history holds for parcel p (a cell) in 2024.
Yield2024(p) ==
    {yield_history.rows[i]["rendement"] :
        i \in {j \in DOMAIN yield_history.rows :
                  /\ yield_history.rows[j]["parcelle_id"] = p
                  /\ YearOf(yield_history.rows[j]["annee"][1]) = TargetYear}}

\* C16: the table the yield enrichment returns has the rows of the table it
\* received, one for one and in order, each with the rendement of its parcel
\* for 2024, missing when the parcel has none; so all the rows of a parcel
\* carry the same rendement.
C16_OneYieldPerParcel ==
    EnrichmentRan =>
        /\ Len(Enriched.rows) = Len(EnrichmentInput.rows)
        /\ \A i \in DOMAIN Enriched.rows :
              /\ \A c \in Range(EnrichmentInput.cols) :
                    Enriched.rows[i][c] = EnrichmentInput.rows[i][c]
              /\ LET ys == Yield2024(Enriched.rows[i]["parcelle_id"])
                 IN  IF ys = {} THEN IsNull(Enriched.rows[i]["rendement"])
                     ELSE ys = {Enriched.rows[i]["rendement"]}

\* C16 witness: the enrichment gave two rows of a parcel the same 2024 yield,
\* the parcel having a yield of another year too, and gave a row of a parcel
\* without 2024 yield a missing rendement; prepare_features returned a table.
C16_Witness ==
    /\ EnrichmentRan
    /\ ~result.isNone
    /\ \E i, j, k \in DOMAIN Enriched.rows :
        /\ i # j
        /\ Enriched.rows[i]["parcelle_id"] = Enriched.rows[j]["parcelle_id"]
        /\ Enriched.rows[i]["rendement"] = Whole(5)
        /\ Enriched.rows[j]["rendement"] = Whole(5)
        /\ IsNull(Enriched.rows[k]["rendement"])
    /\ \E i \in DOMAIN yield_history.rows :
          YearOf(yield_history.rows[i]["annee"][1]) # TargetYear

====
